---- MODULE Spec2Model ----
(***************************************************************************)
(* Model of the backup tool: the source registry (the SQLite-backed one of *)
(* backup-script.py and the text-file-backed one of                        *)
(* backup_script_original.py), the orchestrating main() and the archive    *)
(* builder perform_backup().                                               *)
(*                                                                         *)
(* Spec is one script run after run, SpecBuild is perform_backup() called  *)
(* on its own, SpecConc is two processes editing one store, SpecPair is    *)
(* the two registries given the same inputs.                               *)
(*                                                                         *)
(* Strings are sequences of one-character strings, so that strip(), the    *)
(* validation regex, int() and Path.resolve() are computed character by    *)
(* character.                                                              *)
(***************************************************************************)
EXTENDS Integers, Sequences, FiniteSets, TLC

VARIABLES
    impl,       \* "db": backup-script.py, "file": backup_script_original.py
    rows,       \* db: the rows (id, path) of table `sources`, in rowid order
    seq,        \* db: sqlite_sequence, the largest id ever allocated
    lines,      \* file: the lines of <script>_sources.txt, each ended by "\n"
    pc,         \* position of the process
    last,       \* the last registry operation: input, report, list before it
    issued,     \* the identifiers shown for entries so far
    gone,       \* filesystem nodes that have disappeared since the start
    locked,     \* files whose open() raises PermissionError
    dest,       \* the state of the destination directory
    bstate,     \* perform_backup: the state of the builder
    bsources,   \* perform_backup: the argument `sources`
    idx,        \* perform_backup: sources taken from `sources` so far
    cur,        \* perform_backup: the source being written
    pending,    \* perform_backup: paths of the source not yet written
    archive,    \* the names of the entries written to the archive
    zipFile,    \* the archive file in the destination
    skipped,    \* perform_backup: skipped_files
    existed,    \* per source taken: the result of its exists() check
    raced,      \* a path disappeared between its listing and its write
    events,     \* the log lines of the run
    cpc,        \* two editors: the position of each in its editing loop
    cview,      \* two editors: the `sources` each loaded for its iteration
    kept,       \* two editors: per path, acknowledged adds less removals
    cops,       \* two editors: operations acknowledged so far
    reports,    \* two registries: what each reported for the last operation
    fifos       \* files that are named pipes no process has opened to write

storeVars == <<rows, seq, lines>>
envVars == <<gone, locked, dest>>
buildVars == <<bstate, bsources, idx, cur, pending, archive, zipFile,
               skipped, existed, raced>>
concVars == <<cpc, cview, kept, cops>>
sideVars == <<concVars, reports, fifos>>
vars == <<impl, rows, seq, lines, pc, last, issued, gone, locked, dest,
          bstate, bsources, idx, cur, pending, archive, zipFile, skipped,
          existed, raced, events, cpc, cview, kept, cops, reports, fifos>>

(***************************************************************************)
(* Bounds.                                                                 *)
(***************************************************************************)
MaxEntries == 2     \* entries the registry may hold
MaxId == 3          \* largest AUTOINCREMENT id handed out
MaxSources == 2     \* sources handed to a build that starts on its own
MaxOps == 3         \* two editors: operations acknowledged in all

(***************************************************************************)
(* Characters and strings.                                                 *)
(***************************************************************************)
Letters == {"a", "b", "d", "e", "m", "o", "s", "x"}
Digits == {"0", "1", "2", "3", "4", "5", "6", "7", "8", "9"}

\* VALID_PATH_REGEX = r"^[a-zA-Z0-9_\-\/\.\\: ]+$"
AllowedChars == Letters \cup Digits \cup {"_", "-", "/", ".", "\\", ":", " "}

\* the characters str.strip() removes
Whitespace == {" ", "\t"}

RECURSIVE LStrip(_)
LStrip(s) ==
    IF s # <<>> /\ Head(s) \in Whitespace THEN LStrip(Tail(s)) ELSE s

RECURSIVE RStrip(_)
RStrip(s) ==
    IF s # <<>> /\ s[Len(s)] \in Whitespace
    THEN RStrip(SubSeq(s, 1, Len(s) - 1))
    ELSE s

\* str.strip()
Strip(s) == RStrip(LStrip(s))

\* validate_path(path): re.match of the regex, one or more allowed characters
validate_path(path) ==
    /\ Len(path) >= 1
    /\ \A i \in 1..Len(path) : path[i] \in AllowedChars

DigitVal(c) ==
    CASE c = "0" -> 0 [] c = "1" -> 1 [] c = "2" -> 2 [] c = "3" -> 3
      [] c = "4" -> 4 [] c = "5" -> 5 [] c = "6" -> 6 [] c = "7" -> 7
      [] c = "8" -> 8 [] c = "9" -> 9

RECURSIVE DigitsVal(_)
DigitsVal(s) ==
    IF s = <<>> THEN 0
    ELSE 10 * DigitsVal(SubSeq(s, 1, Len(s) - 1)) + DigitVal(s[Len(s)])

AllDigits(s) == Len(s) >= 1 /\ \A i \in 1..Len(s) : s[i] \in Digits

\* int(text): surrounding whitespace and one sign are accepted, anything
\* else raises ValueError
ParseInt(text) ==
    LET t == Strip(text)
        signed == t # <<>> /\ Head(t) \in {"-", "+"}
        body == IF signed THEN Tail(t) ELSE t
    IN  IF AllDigits(body)
        THEN [ok |-> TRUE,
              val |-> IF signed /\ Head(t) = "-" THEN 0 - DigitsVal(body)
                      ELSE DigitsVal(body)]
        ELSE [ok |-> FALSE, val |-> 0]

(***************************************************************************)
(* Paths: Path(text).resolve() and Path.exists().                          *)
(***************************************************************************)
RECURSIVE SplitAcc(_, _, _, _)
SplitAcc(s, i, part, acc) ==
    IF i > Len(s) THEN Append(acc, part)
    ELSE IF s[i] = "/" THEN SplitAcc(s, i + 1, <<>>, Append(acc, part))
    ELSE SplitAcc(s, i + 1, Append(part, s[i]), acc)

\* the components of a path string, separated by "/"
Split(s) == SplitAcc(s, 1, <<>>, <<>>)

RECURSIVE Normalize(_, _)
Normalize(parts, acc) ==
    IF parts = <<>> THEN acc
    ELSE LET c == Head(parts) IN
         IF c = <<>> \/ c = <<".">> THEN Normalize(Tail(parts), acc)
         ELSE IF c = <<".", ".">>
         THEN Normalize(Tail(parts),
                        IF acc = <<>> THEN acc
                        ELSE SubSeq(acc, 1, Len(acc) - 1))
         ELSE Normalize(Tail(parts), Append(acc, c))

RECURSIVE JoinParts(_)
JoinParts(parts) ==
    IF parts = <<>> THEN <<>>
    ELSE <<"/">> \o Head(parts) \o JoinParts(Tail(parts))

\* str() of an absolute path given by its components
PathStr(parts) == IF parts = <<>> THEN <<"/">> ELSE JoinParts(parts)

\* the working directory of the process, as components
CwdParts == << <<"d">> >>

\* the components of Path(text).resolve(): made absolute against the working
\* directory, "", "." and ".." normalized (the modelled tree has no symlinks)
ResolveParts(text) ==
    IF text # <<>> /\ Head(text) = "/"
    THEN Normalize(Split(text), <<>>)
    ELSE Normalize(Split(text), CwdParts)

\* str(Path(text).resolve())
Resolve(text) == PathStr(ResolveParts(text))

\* the filesystem tree at the start: path strings of the regular files and of
\* the directories
RootDir == <<"/">>
FileA == <<"/", "a">>
FilePlus == <<"/", "+">>
FileSp == <<"/", "a", " ">>
DirD == <<"/", "d">>
FileDA == <<"/", "d", "/", "a">>
DirDS == <<"/", "d", "/", "s">>
FileDSB == <<"/", "d", "/", "s", "/", "b">>
DirE == <<"/", "e">>
Missing == <<"/", "m">>

Files == {FileA, FilePlus, FileSp, FileDA, FileDSB}
Dirs == {RootDir, DirD, DirDS, DirE}
Nodes == Files \cup Dirs

\* the files that may disappear while the program runs
Vanishable == {FileA, FileDA}

\* Path.exists() of a resolved path
Exists(p) == p \in Nodes \ gone

\* Path.is_dir() of a resolved path
IsDir(p) == p \in Dirs \ gone

(***************************************************************************)
(* The registry stores.                                                    *)
(***************************************************************************)
\* INSERT mutated: a path the table holds already is not inserted again
DbInsert_unique(rs, sq, p) ==
    IF \E i \in 1..Len(rs) : rs[i].path = p
    THEN [rows |-> rs, seq |-> sq]
    ELSE [rows |-> Append(rs, [id |-> sq + 1, path |-> p]), seq |-> sq + 1]

\* db: INSERT INTO sources (path) VALUES (?) under AUTOINCREMENT
DbInsert(rs, sq, p) ==
    [rows |-> Append(rs, [id |-> sq + 1, path |-> p]), seq |-> sq + 1]

\* DELETE mutated: when no row has the id, the oldest row goes
DbDelete_oldest(rs, n) ==
    IF \A i \in 1..Len(rs) : rs[i].id # n
    THEN SubSeq(rs, 2, Len(rs))
    ELSE SelectSeq(rs, LAMBDA r : r.id # n)

\* db: DELETE FROM sources WHERE id = ?
DbDelete(rs, n) == SelectSeq(rs, LAMBDA r : r.id # n)

\* file: [line.strip() for line in sources_file.read_text().splitlines()]
FileLoad(ls) == [i \in 1..Len(ls) |-> Strip(ls[i])]

\* file: the lines of the text "\n".join(sources) + "\n"
WriteText(sources) == IF sources = <<>> THEN << <<>> >> ELSE sources

\* file: enumerate(sources, start=1)
Enumerate(sources) ==
    [i \in 1..Len(sources) |-> [id |-> i, path |-> sources[i]]]

\* file: sources.pop(index - 1)
Pop(sources, index) ==
    SubSeq(sources, 1, index - 1) \o SubSeq(sources, index + 1, Len(sources))

\* list(): what the loop displays, the ordered sequence of (id, path); the
\* database returns the rows of SELECT id, path in rowid order
ListOf(im, rs, ls) == IF im = "db" THEN rs ELSE Enumerate(FileLoad(ls))

List == ListOf(impl, rows, lines)

Ids(l) == {l[i].id : i \in 1..Len(l)}
Paths(l) == [i \in 1..Len(l) |-> l[i].path]

(***************************************************************************)
(* Inputs typed at the prompts.                                            *)
(***************************************************************************)
PathInputs == {
    <<"/", "a">>,                   \* an existing file
    <<" ", "/", "a">>,              \* the same, typed after a space
    <<"a">>,                        \* relative: /d/a
    <<"/", "+">>,                   \* an existing file, '+' is not allowed
    <<"/", "a", " ", "/">>,         \* the existing file named "a "
    <<"/", "m">>,                   \* does not exist
    <<>>,                           \* nothing typed
    <<"/", "d", "/", ".">>,         \* the directory /d
    <<"/", "e">> }                  \* the empty directory /e

IdInputs == {
    <<"0">>, <<"1">>, <<"2">>, <<"3">>, <<"4">>, <<"-", "1">>,
    <<" ", "1">>, <<"x">>, <<>> }

NoSource == [src |-> <<>>, dir |-> FALSE]

NoOp == [op |-> "none", text |-> <<>>, id |-> 0 - 1, report |-> "none",
         before |-> <<>>]

(***************************************************************************)
(* manage_backup_sources: one iteration of the loop per action.            *)
(***************************************************************************)
\* one process edits one registry; the tree holds regular files only
OneEditor ==
    /\ cpc = <<>>
    /\ cview = <<>>
    /\ kept = <<>>
    /\ cops = 0
    /\ reports = <<>>
    /\ fifos = {}

BuildIdle ==
    /\ bstate = "Idle"
    /\ idx = 0
    /\ cur = NoSource
    /\ pending = {}
    /\ archive = {}
    /\ zipFile = "none"
    /\ skipped = <<>>
    /\ existed = <<>>
    /\ raced = FALSE

\* the state after the first start: an empty table, an empty sources file
Init ==
    /\ impl \in {"db", "file"}
    /\ rows = <<>>
    /\ seq = 0
    /\ lines = <<>>
    /\ pc = "edit"
    /\ last = NoOp
    /\ issued = {}
    /\ gone = {}
    /\ locked = {}
    /\ dest = "writable"
    /\ bsources = <<>>
    /\ BuildIdle
    /\ events = {}
    /\ OneEditor

\* action 'a'
Add(text) ==
    /\ pc = "edit"
    /\ LET path == Strip(text)
           resolved == Resolve(path)
           sources == FileLoad(lines)
       IN  IF impl = "db"
           THEN IF ~validate_path(path)
                THEN /\ last' = [op |-> "add", text |-> path, id |-> 0 - 1,
                                 report |-> "invalid_format", before |-> List]
                     /\ UNCHANGED <<rows, seq, lines>>
                ELSE IF Exists(resolved)
                THEN /\ Len(rows) < MaxEntries /\ seq < MaxId
                     /\ rows' = DbInsert(rows, seq, resolved).rows
                     /\ seq' = DbInsert(rows, seq, resolved).seq
                     /\ last' = [op |-> "add", text |-> path, id |-> seq + 1,
                                 report |-> "added", before |-> List]
                     /\ UNCHANGED lines
                ELSE /\ last' = [op |-> "add", text |-> path, id |-> 0 - 1,
                                 report |-> "not_exist", before |-> List]
                     /\ UNCHANGED <<rows, seq, lines>>
           ELSE IF Exists(resolved)
                THEN /\ Len(sources) < MaxEntries
                     /\ lines' = WriteText(Append(sources, resolved))
                     /\ last' = [op |-> "add", text |-> path,
                                 id |-> Len(sources) + 1,
                                 report |-> "added", before |-> List]
                     /\ UNCHANGED <<rows, seq>>
                ELSE /\ last' = [op |-> "add", text |-> path, id |-> 0 - 1,
                                 report |-> "not_exist", before |-> List]
                     /\ UNCHANGED <<rows, seq, lines>>
    /\ issued' = issued \cup Ids(ListOf(impl, rows', lines'))
    /\ UNCHANGED <<sideVars, impl, pc, envVars, buildVars, events>>

\* action 'r'
Remove(text) ==
    /\ pc = "edit"
    /\ LET r == ParseInt(text)
           sources == FileLoad(lines)
       IN  IF ~r.ok
           THEN /\ last' = [op |-> "remove", text |-> text, id |-> 0 - 1,
                            report |-> "non_numeric", before |-> List]
                /\ UNCHANGED <<rows, seq, lines>>
           ELSE IF impl = "db"
           THEN /\ rows' = DbDelete(rows, r.val)
                /\ last' = [op |-> "remove", text |-> text, id |-> r.val,
                            report |-> "removed", before |-> List]
                /\ UNCHANGED <<seq, lines>>
           ELSE IF 0 < r.val /\ r.val <= Len(sources)
           THEN /\ lines' = WriteText(Pop(sources, r.val))
                /\ last' = [op |-> "remove", text |-> text, id |-> r.val,
                            report |-> "removed", before |-> List]
                /\ UNCHANGED <<rows, seq>>
           ELSE /\ last' = [op |-> "remove", text |-> text, id |-> r.val,
                            report |-> "invalid_selection", before |-> List]
                /\ UNCHANGED <<rows, seq, lines>>
    /\ issued' = issued \cup Ids(ListOf(impl, rows', lines'))
    /\ UNCHANGED <<sideVars, impl, pc, envVars, buildVars, events>>

\* action 'f'
Finish ==
    /\ pc = "edit"
    /\ IF impl = "db"
       THEN UNCHANGED lines
       ELSE lines' = WriteText(FileLoad(lines))
    /\ pc' = "sources"
    /\ last' = [op |-> "finish", text |-> <<>>, id |-> 0 - 1,
                report |-> "finished", before |-> List]
    /\ issued' = issued \cup Ids(ListOf(impl, rows, lines'))
    /\ UNCHANGED <<sideVars, impl, rows, seq, envVars, buildVars, events>>

\* any other action, mutated: it empties the table and the sources file
InvalidAction_clear ==
    /\ pc = "edit"
    /\ last' = [op |-> "invalid", text |-> <<>>, id |-> 0 - 1,
                report |-> "invalid_action", before |-> List]
    /\ rows' = <<>>
    /\ lines' = <<>>
    /\ UNCHANGED <<sideVars, impl, seq, pc, issued, envVars, buildVars,
                   events>>

\* any other action
InvalidAction ==
    /\ pc = "edit"
    /\ last' = [op |-> "invalid", text |-> <<>>, id |-> 0 - 1,
                report |-> "invalid_action", before |-> List]
    /\ UNCHANGED <<sideVars, impl,
                   storeVars, pc, issued, envVars, buildVars, events>>

\* the process dies between two steps (kill, power loss): committed
\* transactions and closed files stay
Crash ==
    /\ pc \in {"edit", "sources", "destination", "build"}
    /\ pc' = "crashed"
    /\ last' = NoOp
    /\ UNCHANGED <<sideVars, impl,
                   storeVars, issued, envVars, buildVars, events>>

\* file: the process dies inside sources_file.write_text() of an add, a remove
\* or the finish action, after open(mode='w') has truncated the file and
\* before the buffered text is flushed
CrashInWrite ==
    /\ pc = "edit"
    /\ impl = "file"
    /\ lines' = <<>>
    /\ pc' = "crashed"
    /\ last' = NoOp
    /\ issued' = issued
    /\ UNCHANGED <<sideVars, impl, rows, seq, envVars, buildVars, events>>

\* the script is started again: initialize_database() finds the table,
\* manage_backup_sources() finds the sources file
Restart ==
    /\ pc \in {"exited", "crashed"}
    /\ pc' = "edit"
    /\ last' = NoOp
    /\ issued' = issued \cup Ids(List)
    /\ events' = {}
    /\ bsources' = <<>>
    /\ bstate' = "Idle"
    /\ idx' = 0
    /\ cur' = NoSource
    /\ pending' = {}
    /\ archive' = {}
    /\ zipFile' = "none"
    /\ skipped' = <<>>
    /\ existed' = <<>>
    /\ raced' = FALSE
    /\ locked' = {}
    /\ dest' = "writable"
    /\ UNCHANGED <<sideVars, impl, storeVars, gone>>

(***************************************************************************)
(* The environment.                                                        *)
(***************************************************************************)
\* what the destination directory can be: an existing writable directory,
\* an existing directory that cannot be written, a writable directory on a
\* full disk, a missing directory that can be created, a missing directory
\* whose parent cannot be written
DestStates == {"writable", "readonly", "full", "missing", "blocked"}

\* the files that may be unreadable
Lockable == {FileA, FileDSB}

\* a file is deleted by somebody else
Vanish(f) ==
    /\ pc \in {"edit", "build"}
    /\ f \in Vanishable \ gone
    /\ gone' = gone \cup {f}
    /\ UNCHANGED <<sideVars, impl, storeVars, pc, last, issued, locked, dest,
                   buildVars, events>>

(***************************************************************************)
(* main() and get_backup_destination().                                    *)
(***************************************************************************)
NonBlank(sources) == SelectSeq(sources, LAMBDA l : l # <<>>)

\* the final list mutated: the lines of the file are taken as they are
FinalSources_unfiltered ==
    IF impl = "db" THEN Paths(rows) ELSE FileLoad(lines)

\* the final list main() reads after the editing loop
FinalSources ==
    IF impl = "db" THEN Paths(rows) ELSE NonBlank(FileLoad(lines))

\* main(): read the sources; the state in which this run will find the
\* destination directory and the source files is fixed here
MainGetSources ==
    /\ pc = "sources"
    /\ IF FinalSources = <<>>
       THEN /\ events' = events \cup {"NoSources"}
            /\ pc' = "exited"
            /\ UNCHANGED <<bsources, locked, dest>>
       ELSE /\ bsources' = FinalSources
            /\ pc' = "destination"
            /\ locked' \in SUBSET Lockable
            /\ dest' \in DestStates
            /\ UNCHANGED events
    /\ UNCHANGED <<sideVars, impl,
                   storeVars, last, issued, gone, bstate, idx, cur,
                   pending, archive, zipFile, skipped, existed, raced>>

DestInputs == {<<>>, <<" ">>, <<"/", "o">>}

\* destination.exists() and os.access(destination, os.W_OK)
DestUsable(d) == d \in {"writable", "full"}

DestExists(d) == d \in {"writable", "readonly", "full"}

\* get_backup_destination(): one prompt; `retry` answers the original's
\* "Retry? (y/n)"
GetDestination(text, retry) ==
    /\ pc = "destination"
    /\ LET destination == Strip(text) IN
       IF destination = <<>>
       THEN IF impl = "db"
            THEN \* destination.mkdir(parents=True, exist_ok=True), unguarded
                 IF dest = "blocked"
                 THEN /\ pc' = "crashed"
                      /\ events' = events \cup {"Unhandled"}
                      /\ UNCHANGED dest
                 ELSE /\ pc' = "build"
                      /\ dest' = IF dest = "missing" THEN "writable" ELSE dest
                      /\ events' = events \cup {"DestinationSet"}
            ELSE IF ~DestExists(dest)
                 THEN IF dest = "blocked"
                      THEN /\ pc' = "exited"
                           /\ events' = events \cup {"NoDestination"}
                           /\ UNCHANGED dest
                      ELSE /\ pc' = "build"
                           /\ dest' = "writable"
                           /\ events' = events \cup {"DestinationSet"}
                 ELSE /\ pc' = "build"
                      /\ events' = events \cup {"DestinationSet"}
                      /\ UNCHANGED dest
       ELSE IF DestUsable(dest)
            THEN /\ pc' = "build"
                 /\ events' = events \cup {"DestinationSet"}
                 /\ UNCHANGED dest
            ELSE IF impl = "db" \/ retry
                 THEN UNCHANGED <<pc, dest, events>>
                 ELSE /\ pc' = "exited"
                      /\ events' = events \cup {"NoDestination"}
                      /\ UNCHANGED dest
    /\ UNCHANGED <<sideVars, impl,
                   storeVars, last, issued, gone, locked, buildVars>>

\* main() after perform_backup(), mutated: the sources the build skipped
\* are taken out of the registry
MainEnd_prune ==
    /\ pc = "build"
    /\ bstate \in {"Completed", "Failed"}
    /\ pc' = "exited"
    /\ events' = IF impl = "file"
                 THEN events \cup {"ProcessCompleted"}
                 ELSE events
    /\ rows' = SelectSeq(rows, LAMBDA r :
                    \A k \in 1..Len(skipped) : skipped[k] # r.path)
    /\ lines' = SelectSeq(lines, LAMBDA l :
                     \A k \in 1..Len(skipped) : skipped[k] # Strip(l))
    /\ UNCHANGED <<sideVars, impl, seq, last, issued, envVars, buildVars>>

\* main() after perform_backup() has returned
MainEnd ==
    /\ pc = "build"
    /\ bstate \in {"Completed", "Failed"}
    /\ pc' = "exited"
    /\ events' = IF impl = "file"
                 THEN events \cup {"ProcessCompleted"}
                 ELSE events
    /\ UNCHANGED <<sideVars, impl,
                   storeVars, last, issued, envVars, buildVars>>

(***************************************************************************)
(* perform_backup().                                                       *)
(***************************************************************************)
\* a is a proper prefix of b
IsPrefix(a, b) == Len(a) < Len(b) /\ SubSeq(b, 1, Len(a)) = a

\* source_path.rglob('*'): everything beneath the directory, the directory
\* itself excluded.  Only files directly in a source directory can vanish,
\* so listing the whole tree when the iteration starts lists what the lazy
\* walk lists.
RGlob(d) ==
    {n \in Nodes \ gone : IsPrefix(ResolveParts(d), ResolveParts(n))}

\* the components of path.parent
ParentParts(parts) ==
    IF parts = <<>> THEN parts ELSE SubSeq(parts, 1, Len(parts) - 1)

\* str(file.relative_to(base)): the components after those of base
RelativeTo(f, baseParts) ==
    LET parts == ResolveParts(f)
    IN  Tail(JoinParts(SubSeq(parts, Len(baseParts) + 1, Len(parts))))

\* source_path.name
Name(p) ==
    LET parts == ResolveParts(p)
    IN  IF parts = <<>> THEN <<>> ELSE parts[Len(parts)]

\* arcname mutated: relative to the source directory itself
ArcName_flat(c, f) ==
    IF c.dir
    THEN RelativeTo(f, ResolveParts(c.src))
    ELSE Name(f)

\* arcname: relative to the parent of a directory source, the base name of a
\* file source
ArcName(c, f) ==
    IF c.dir
    THEN RelativeTo(f, ParentParts(ResolveParts(c.src)))
    ELSE Name(f)

\* ZipInfo.from_file(): the entry of a directory is named with a final "/"
EntryName(f, arc) == IF f \in Dirs THEN arc \o <<"/">> ELSE arc

\* zip_file.write(file, arcname): what it raises
WriteOutcome(f) ==
    IF f \in gone THEN "FileNotFoundError"
    ELSE IF f \in locked /\ f \in Files THEN "PermissionError"
    ELSE "ok"

\* zip_file.write(file, arcname) of a named pipe: once stat() and the
\* permission check have passed, open(filename, "rb") does not return before
\* some process opens the pipe to write
Blocks(f) == f \in fifos /\ WriteOutcome(f) = "ok"

\* the handlers around zip_file.write(): except PermissionError
Caught(exc) == exc = "PermissionError"

\* ZipFile(path, 'w') mutated: the file is opened wherever it is
CanCreate_any(d) == TRUE

\* ZipFile(backup_zip_path, 'w', ZIP_DEFLATED) creates the file
CanCreate(d) == d \in {"writable", "full"}

\* the missing source is forgotten
SkipMissing_drop(sk, sp) == sk

\* skipped_files.append(str(source_path)) of a missing source
SkipMissing(sk, sp) == Append(sk, sp)

\* perform_backup(sources, destination) is called
BuildStart ==
    /\ pc = "build"
    /\ bstate = "Idle"
    /\ bstate' = "Opening"
    /\ UNCHANGED <<sideVars, impl,
                   storeVars, pc, last, issued, envVars, bsources, idx,
                   cur, pending, archive, zipFile, skipped, existed, raced,
                   events>>

\* the original creates a missing destination; then the archive is opened
BuildOpen ==
    /\ bstate = "Opening"
    /\ IF impl = "file" /\ ~DestExists(dest)
       THEN IF dest = "blocked"
            THEN /\ bstate' = "Failed"
                 /\ events' = events \cup {"DestCreateDenied"}
                 /\ UNCHANGED <<dest, zipFile>>
            ELSE /\ dest' = "writable"
                 /\ zipFile' = "open"
                 /\ bstate' = "PerSourceLoop"
                 /\ events' = events \cup {"DestCreated"}
       ELSE IF CanCreate(dest)
            THEN /\ zipFile' = "open"
                 /\ bstate' = "PerSourceLoop"
                 /\ UNCHANGED <<dest, events>>
            ELSE /\ bstate' = "Failed"
                 /\ events' = events \cup {"FailedToCreateBackup"}
                 /\ UNCHANGED <<dest, zipFile>>
    /\ UNCHANGED <<sideVars, impl,
                   storeVars, pc, last, issued, gone, locked, bsources,
                   idx, cur, pending, archive, skipped, existed, raced>>

\* for source in sources: the exists() and is_dir() checks of the next source
BuildSource ==
    /\ bstate = "PerSourceLoop"
    /\ pending = {}
    /\ idx < Len(bsources)
    /\ LET source_path == Resolve(bsources[idx + 1]) IN
       /\ idx' = idx + 1
       /\ existed' = Append(existed, Exists(source_path))
       /\ IF ~Exists(source_path)
          THEN /\ skipped' = SkipMissing(skipped, source_path)
               /\ cur' = NoSource
               /\ pending' = {}
          ELSE IF IsDir(source_path)
          THEN /\ cur' = [src |-> source_path, dir |-> TRUE]
               /\ pending' = RGlob(source_path)
               /\ UNCHANGED skipped
          ELSE /\ cur' = [src |-> source_path, dir |-> FALSE]
               /\ pending' = {source_path}
               /\ UNCHANGED skipped
    /\ UNCHANGED <<sideVars, impl,
                   storeVars, pc, last, issued, envVars, bstate,
                   bsources, archive, zipFile, raced, events>>

\* ZipFile.__exit__(): close() writes the central directory
CloseResult(d) == IF d = "full" THEN "open" ELSE "closed"

\* zip_file.write() of one listed path, inside try/except PermissionError; any
\* other exception leaves the with block, which closes the archive, and is
\* handled by except Exception
BuildFile(f) ==
    /\ bstate = "PerSourceLoop"
    /\ f \in pending
    /\ ~Blocks(f)
    /\ LET exc == WriteOutcome(f) IN
       IF exc = "ok"
       THEN /\ archive' = archive \cup {EntryName(f, ArcName(cur, f))}
            /\ pending' = pending \ {f}
            /\ UNCHANGED <<bstate, zipFile, skipped, raced, events>>
       ELSE IF Caught(exc)
       THEN /\ skipped' = Append(skipped, f)
            /\ pending' = pending \ {f}
            /\ UNCHANGED <<bstate, archive, zipFile, raced, events>>
       ELSE /\ zipFile' = CloseResult(dest)
            /\ bstate' = "Failed"
            /\ raced' = TRUE
            /\ events' = events \cup {"FailedToCreateBackup"}
            /\ UNCHANGED <<archive, pending, skipped>>
    /\ UNCHANGED <<sideVars, impl,
                   storeVars, pc, last, issued, envVars, bsources, idx,
                   cur, existed>>

\* the for loop over the sources is exhausted
BuildEndLoop ==
    /\ bstate = "PerSourceLoop"
    /\ pending = {}
    /\ idx = Len(bsources)
    /\ bstate' = "Finalizing"
    /\ UNCHANGED <<sideVars, impl,
                   storeVars, pc, last, issued, envVars, bsources, idx,
                   cur, pending, archive, zipFile, skipped, existed, raced,
                   events>>

\* the with block is left: the archive is closed and success is logged, or
\* close() raises
BuildClose ==
    /\ bstate = "Finalizing"
    /\ IF CloseResult(dest) = "closed"
       THEN /\ zipFile' = "closed"
            /\ bstate' = "Completed"
            /\ events' = events \cup {"BackupCompleted"}
       ELSE /\ bstate' = "Failed"
            /\ events' = events \cup {"FailedToCreateBackup"}
            /\ UNCHANGED zipFile
    /\ UNCHANGED <<sideVars, impl,
                   storeVars, pc, last, issued, envVars, bsources, idx,
                   cur, pending, archive, skipped, existed, raced>>

(***************************************************************************)
(* The program: edit the registry, then build, run after run.              *)
(***************************************************************************)
Next ==
    \/ \E text \in PathInputs : Add(text)
    \/ \E text \in IdInputs : Remove(text)
    \/ Finish
    \/ InvalidAction
    \/ Crash
    \/ CrashInWrite
    \/ Restart
    \/ \E f \in Vanishable : Vanish(f)
    \/ MainGetSources
    \/ \E text \in DestInputs, retry \in BOOLEAN : GetDestination(text, retry)
    \/ MainEnd
    \/ BuildStart
    \/ BuildOpen
    \/ BuildSource
    \/ \E f \in Nodes : BuildFile(f)
    \/ BuildEndLoop
    \/ BuildClose

Spec == Init /\ [][Next]_vars

(***************************************************************************)
(* The builder on its own: perform_backup() called with any sources and    *)
(* any destination.                                                        *)
(***************************************************************************)
SourceArgs == {FileA, DirD, DirE, Missing}

SeqsUpTo(S, n) == UNION {[1..k -> S] : k \in 0..n}

InitBuild ==
    /\ impl \in {"db", "file"}
    /\ rows = <<>>
    /\ seq = 0
    /\ lines = <<>>
    /\ pc = "build"
    /\ last = NoOp
    /\ issued = {}
    /\ gone \in SUBSET Vanishable
    /\ locked \in SUBSET Lockable
    /\ dest \in DestStates
    /\ bsources \in SeqsUpTo(SourceArgs, MaxSources)
    /\ BuildIdle
    /\ events = {}
    /\ OneEditor

NextBuild ==
    \/ BuildStart
    \/ BuildOpen
    \/ BuildSource
    \/ \E f \in Nodes : BuildFile(f)
    \/ BuildEndLoop
    \/ BuildClose
    \/ \E f \in Vanishable : Vanish(f)

SpecBuild == InitBuild /\ [][NextBuild]_vars

(***************************************************************************)
(* The builder on its own, running: perform_backup() is sequential code    *)
(* that nobody suspends, so whenever it has a next step it takes one.  The *)
(* tree may hold named pipes.                                              *)
(***************************************************************************)
\* the files that may be named pipes
Pipes == {FileA, FileDA}

\* the sources, unreadable files and destinations of the running builder
LiveSources == {FileA, DirD}

LiveLocked == {FileA}

LiveDests == {"writable", "readonly", "full"}

\* some process opens the pipe to write and closes it: open() returns in
\* the builder, which reads no data
WriterOpens(f) ==
    /\ f \in fifos
    /\ fifos' = fifos \ {f}
    /\ UNCHANGED <<impl, storeVars, pc, last, issued, envVars, buildVars,
                   events, concVars, reports>>

\* main() is about to call perform_backup()
InitLive ==
    /\ impl \in {"db", "file"}
    /\ rows = <<>>
    /\ seq = 0
    /\ lines = <<>>
    /\ pc = "destination"
    /\ last = NoOp
    /\ issued = {}
    /\ gone = {}
    /\ locked = {}
    /\ dest = "writable"
    /\ bsources = <<>>
    /\ BuildIdle
    /\ events = {}
    /\ OneEditor

\* the call: the arguments `sources` and `destination`, and the state of the
\* tree the build will find
LiveCall ==
    /\ pc = "destination"
    /\ pc' = "build"
    /\ bsources' \in SeqsUpTo(LiveSources, MaxSources)
    /\ dest' \in LiveDests
    /\ locked' \in SUBSET LiveLocked
    /\ fifos' \in SUBSET Pipes
    /\ UNCHANGED <<impl, storeVars, last, issued, gone, bstate, idx, cur,
                   pending, archive, zipFile, skipped, existed, raced, events,
                   concVars, reports>>

\* the steps of perform_backup()
BuilderStep ==
    \/ BuildStart
    \/ BuildOpen
    \/ BuildSource
    \/ \E f \in Nodes : BuildFile(f)
    \/ BuildEndLoop
    \/ BuildClose

NextLive ==
    \/ LiveCall
    \/ BuilderStep
    \/ \E f \in Vanishable : Vanish(f)
    \/ \E f \in Pipes : WriterOpens(f)

SpecLive == InitLive /\ [][NextLive]_vars /\ WF_vars(BuilderStep)

(***************************************************************************)
(* The add and remove actions as functions of the store, for the           *)
(* specifications that run two registries.                                 *)
(***************************************************************************)
\* db, action 'a': validate, resolve, exists(), INSERT and commit
DbAdd(rs, sq, text) ==
    LET path == Strip(text)
        resolved == Resolve(path)
    IN  IF ~validate_path(path)
        THEN [rows |-> rs, seq |-> sq, report |-> "invalid_format"]
        ELSE IF Exists(resolved)
        THEN [rows |-> DbInsert(rs, sq, resolved).rows,
              seq |-> DbInsert(rs, sq, resolved).seq, report |-> "added"]
        ELSE [rows |-> rs, seq |-> sq, report |-> "not_exist"]

\* file, action 'a' on the loaded `sources`: resolve, exists(), append and
\* write the whole list back
FileAdd(sources, ls, text) ==
    LET resolved == Resolve(Strip(text))
    IN  IF Exists(resolved)
        THEN [lines |-> WriteText(Append(sources, resolved)),
              report |-> "added"]
        ELSE [lines |-> ls, report |-> "not_exist"]

\* db, action 'r': int(), DELETE and commit, "Removed" whatever was deleted;
\* `removed` is the set of paths of the rows deleted
DbRemove(rs, text) ==
    LET r == ParseInt(text)
    IN  IF ~r.ok
        THEN [rows |-> rs, report |-> "non_numeric", removed |-> {}]
        ELSE [rows |-> DbDelete(rs, r.val), report |-> "removed",
              removed |-> {e.path : e \in {x \in {rs[i] : i \in 1..Len(rs)} :
                                             x.id = r.val}}]

\* file, action 'r' on the loaded `sources`: int(), the range check, pop and
\* write the whole list back; `removed` holds the path popped
FileRemove(sources, ls, text) ==
    LET r == ParseInt(text)
    IN  IF ~r.ok
        THEN [lines |-> ls, report |-> "non_numeric", removed |-> {}]
        ELSE IF 0 < r.val /\ r.val <= Len(sources)
        THEN [lines |-> WriteText(Pop(sources, r.val)), report |-> "removed",
              removed |-> {sources[r.val]}]
        ELSE [lines |-> ls, report |-> "invalid_selection", removed |-> {}]

(***************************************************************************)
(* Two processes run manage_backup_sources() on one store.  An iteration   *)
(* of the loop is two steps: the list is loaded, then, after the prompts   *)
(* have been answered, the action is carried out.  A commit of SQLite and  *)
(* a write_text() of the whole file are each one step.                     *)
(***************************************************************************)
Editors == {1, 2}

CPathInputs == {<<"/", "a">>, <<"/", "e">>, <<"/", "m">>}

CIdInputs == {<<"1">>, <<"2">>, <<"x">>}

InitConc ==
    /\ impl \in {"db", "file"}
    /\ rows = <<>>
    /\ seq = 0
    /\ lines = <<>>
    /\ pc = "edit"
    /\ last = NoOp
    /\ issued = {}
    /\ gone = {}
    /\ locked = {}
    /\ dest = "writable"
    /\ bsources = <<>>
    /\ BuildIdle
    /\ events = {}
    /\ cpc = [p \in Editors |-> "load"]
    /\ cview = [p \in Editors |-> <<>>]
    /\ kept = [n \in Nodes |-> 0]
    /\ cops = 0
    /\ reports = <<>>
    /\ fifos = {}

concFrame == <<pc, last, issued, envVars, buildVars, events, reports, fifos>>

\* the top of the loop: SELECT id, path / read_text().splitlines()
CLoad(p) ==
    /\ cpc[p] = "load"
    /\ cview' = [cview EXCEPT ![p] = IF impl = "db" THEN rows
                                     ELSE FileLoad(lines)]
    /\ cpc' = [cpc EXCEPT ![p] = "prompt"]
    /\ UNCHANGED <<impl, storeVars, kept, cops, concFrame>>

\* action 'a' of one editor
CAdd(p, text) ==
    /\ cpc[p] = "prompt"
    /\ LET d == DbAdd(rows, seq, text)
           f == FileAdd(cview[p], lines, text)
           report == IF impl = "db" THEN d.report ELSE f.report
       IN  /\ IF impl = "db"
              THEN rows' = d.rows /\ seq' = d.seq /\ UNCHANGED lines
              ELSE lines' = f.lines /\ UNCHANGED <<rows, seq>>
           /\ IF report = "added"
              THEN /\ cops < MaxOps
                   /\ Len(rows') <= MaxEntries /\ seq' <= MaxId
                   /\ Len(lines') <= MaxEntries
                   /\ kept' = [kept EXCEPT ![Resolve(Strip(text))] = @ + 1]
                   /\ cops' = cops + 1
              ELSE UNCHANGED <<kept, cops>>
    /\ cpc' = [cpc EXCEPT ![p] = "load"]
    /\ UNCHANGED <<impl, cview, concFrame>>

\* action 'r' of one editor
CRemove(p, text) ==
    /\ cpc[p] = "prompt"
    /\ LET d == DbRemove(rows, text)
           f == FileRemove(cview[p], lines, text)
           report == IF impl = "db" THEN d.report ELSE f.report
           removed == (IF impl = "db" THEN d.removed ELSE f.removed)
                          \cap Nodes
       IN  /\ IF impl = "db"
              THEN rows' = d.rows /\ UNCHANGED <<seq, lines>>
              ELSE lines' = f.lines /\ UNCHANGED <<rows, seq>>
           /\ IF report = "removed"
              THEN /\ cops < MaxOps
                   /\ kept' = [n \in Nodes |->
                                 IF n \in removed /\ kept[n] > 0
                                 THEN kept[n] - 1 ELSE kept[n]]
                   /\ cops' = cops + 1
              ELSE UNCHANGED <<kept, cops>>
    /\ cpc' = [cpc EXCEPT ![p] = "load"]
    /\ UNCHANGED <<impl, cview, concFrame>>

\* action 'f' of one editor: the original writes its loaded list once more
CFinish(p) ==
    /\ cpc[p] = "prompt"
    /\ IF impl = "db"
       THEN UNCHANGED lines
       ELSE lines' = WriteText(cview[p])
    /\ cpc' = [cpc EXCEPT ![p] = "done"]
    /\ UNCHANGED <<impl, rows, seq, cview, kept, cops, concFrame>>

NextConc ==
    \/ \E p \in Editors : CLoad(p)
    \/ \E p \in Editors, text \in CPathInputs : CAdd(p, text)
    \/ \E p \in Editors, text \in CIdInputs : CRemove(p, text)
    \/ \E p \in Editors : CFinish(p)

SpecConc == InitConc /\ [][NextConc]_vars

(***************************************************************************)
(* The two registries side by side: every input is given to the table of   *)
(* backup-script.py and to the sources file of backup_script_original.py,  *)
(* both empty at the start.                                                *)
(***************************************************************************)
InitPair ==
    /\ impl = "both"
    /\ rows = <<>>
    /\ seq = 0
    /\ lines = <<>>
    /\ pc = "edit"
    /\ last = NoOp
    /\ issued = {}
    /\ gone = {}
    /\ locked = {}
    /\ dest = "writable"
    /\ bsources = <<>>
    /\ BuildIdle
    /\ events = {}
    /\ cpc = <<>>
    /\ cview = <<>>
    /\ kept = <<>>
    /\ cops = 0
    /\ reports = [op |-> "none", text |-> <<>>, db |-> "none", file |-> "none"]
    /\ fifos = {}

pairFrame == <<impl, pc, last, issued, envVars, buildVars, events, concVars,
               fifos>>

\* action 'a' with the same path typed into both scripts
PairAdd(text) ==
    /\ LET d == DbAdd(rows, seq, text)
           f == FileAdd(FileLoad(lines), lines, text)
       IN  /\ rows' = d.rows
           /\ seq' = d.seq
           /\ lines' = f.lines
           /\ reports' = [op |-> "add", text |-> text, db |-> d.report,
                          file |-> f.report]
    /\ Len(rows') <= MaxEntries
    /\ seq' <= MaxId
    /\ Len(lines') <= MaxEntries
    /\ UNCHANGED pairFrame

\* action 'r' with the same number typed into both scripts
PairRemove(text) ==
    /\ LET d == DbRemove(rows, text)
           f == FileRemove(FileLoad(lines), lines, text)
       IN  /\ rows' = d.rows
           /\ lines' = f.lines
           /\ reports' = [op |-> "remove", text |-> text, db |-> d.report,
                          file |-> f.report]
    /\ UNCHANGED <<seq, pairFrame>>

NextPair ==
    \/ \E text \in PathInputs : PairAdd(text)
    \/ \E text \in IdInputs : PairRemove(text)

SpecPair == InitPair /\ [][NextPair]_vars

TypeOK ==
    /\ impl \in {"db", "file"}
    /\ pc \in {"edit", "sources", "destination", "build", "exited", "crashed"}
    /\ bstate \in {"Idle", "Opening", "PerSourceLoop", "Finalizing",
                   "Completed", "Failed"}
    /\ zipFile \in {"none", "open", "closed"}
    /\ gone \subseteq Vanishable
    /\ dest \in DestStates
    /\ Len(List) <= MaxEntries
    /\ seq <= MaxId
(***************************************************************************)
(* Properties of the registry, checked under Spec.                         *)
(***************************************************************************)
Range(l) == {l[i] : i \in 1..Len(l)}

HasForbiddenChar(text) == \E i \in 1..Len(text) : text[i] \notin AllowedChars

\* C1: an add whose path holds a character outside the allowed set is
\* rejected as an invalid format and leaves the list as it was, in the
\* database registry and in the file registry
C1_ForbiddenCharRejected ==
    (last.op = "add" /\ HasForbiddenChar(last.text))
        => (last.report = "invalid_format" /\ List = last.before)

\* C2: after remove(id) of a listed identifier the list holds no entry with
\* that identifier and holds every other entry with its identifier and path
C2_RemoveDeletesOnlyThat ==
    (last.op = "remove" /\ last.report # "non_numeric"
        /\ last.id \in Ids(last.before))
        => /\ last.id \notin Ids(List)
           /\ \A e \in Range(last.before) : e.id # last.id => e \in Range(List)

\* C3: remove(id) of an identifier no entry has is reported as not found,
\* not as a removal, and deletes nothing
C3_RemoveUnknownNotFound ==
    (last.op = "remove" /\ last.report # "non_numeric"
        /\ last.id \notin Ids(last.before))
        => (last.report = "invalid_selection" /\ List = last.before)

\* C4: after add(p) of a valid path that exists, the list is the list before
\* followed by one entry whose path is the resolved form of p
C4_AddRoundTrip ==
    (last.op = "add" /\ validate_path(last.text)
        /\ last.report # "not_exist")
        => /\ Len(List) = Len(last.before) + 1
           /\ SubSeq(List, 1, Len(last.before)) = last.before
           /\ List[Len(List)].path = Resolve(last.text)

\* C9: a crash, also one in the middle of an add, a remove or the finish
\* action, loses no path the registry listed before it
C9_CrashKeepsEntries ==
    [][pc' = "crashed" =>
        \A e \in Range(List) :
            e.path # <<>> => \E f \in Range(List') : f.path = e.path]_vars

\* C10: an entry keeps its identifier and path while it is not the one
\* removed, and the identifier of a new entry was never shown before
C10_StableFreshIds ==
    [][(pc' # "crashed") =>
        /\ \A e \in Range(List) :
              ~(last'.op = "remove" /\ last'.report = "removed"
                  /\ last'.id = e.id)
              => e \in Range(List')
        /\ (last'.op = "add" /\ last'.report = "added" /\ last' # last)
              => last'.id \notin issued \cup Ids(List)]_vars

(***************************************************************************)
(* Properties of the builder, checked under SpecBuild.                     *)
(***************************************************************************)
RECURSIVE IsSubSeq(_, _)
IsSubSeq(a, b) ==
    IF a = <<>> THEN TRUE
    ELSE IF b = <<>> THEN FALSE
    ELSE IF Head(a) = Head(b) THEN IsSubSeq(Tail(a), Tail(b))
    ELSE IsSubSeq(a, Tail(b))

\* the sources taken so far that did not exist when they were taken
MissingTaken ==
    LET taken == [i \in 1..Len(existed) |->
                     [path |-> Resolve(bsources[i]), here |-> existed[i]]]
        absent == SelectSeq(taken, LAMBDA t : ~t.here)
    IN  [i \in 1..Len(absent) |-> absent[i].path]

\* C5: the sources missing at build time are in the skip list in source
\* order, a completed build has taken every source, a build fails only for
\* the destination or a path that vanished under it, and build([F, M]) with
\* F a readable file ends completed with archive {F} and skip list [M]
C5_MissingSourcesSkipped ==
    /\ IsSubSeq(MissingTaken, skipped)
    /\ bstate = "Completed" => Len(existed) = Len(bsources)
    /\ bstate = "Failed" => (dest # "writable" \/ raced)
    /\ (bstate \in {"Completed", "Failed"} /\ bsources = <<FileA, Missing>>
          /\ dest = "writable" /\ FileA \notin gone \cup locked)
        => /\ bstate = "Completed"
           /\ archive = {<<"a">>}
           /\ skipped = <<Missing>>

C5_Witness ==
    /\ bstate = "Completed"
    /\ bsources = <<FileA, Missing>>
    /\ archive = {<<"a">>}
    /\ skipped = <<Missing>>

\* the path string p starts with the path string d followed by "/"
StrictlyBeneath(p, d) ==
    /\ Len(p) > Len(d) + 1
    /\ SubSeq(p, 1, Len(d) + 1) = d \o <<"/">>

\* a path string without the path of the parent of d in front
FromParentOf(p, d) == SubSeq(p, Len(d) - Len(Name(d)) + 1, Len(p))

\* a completed build of one directory whose tree is whole and readable
WholeDirBuilt ==
    /\ bstate = "Completed"
    /\ Len(bsources) = 1
    /\ bsources[1] \in Dirs \ {RootDir}
    /\ \A n \in Nodes :
          StrictlyBeneath(n, bsources[1]) => n \notin gone \cup locked

\* C6 as stated: the entries of the archive built from a directory D are the
\* files beneath D, named relative to the parent of D: d/a and d/s/b for /d
C6_EntriesAreTheFiles ==
    WholeDirBuilt =>
        /\ archive = {FromParentOf(n, bsources[1]) :
                        n \in {m \in Files : StrictlyBeneath(m, bsources[1])}}
        /\ bsources[1] = DirD =>
              archive = {<<"d", "/", "a">>, <<"d", "/", "s", "/", "b">>}

\* C6 amended: the entries are the files and the directories beneath D, named
\* relative to the parent of D, a directory with a final "/": d/a, d/s/ and
\* d/s/b for /d
C6_EntriesAreFilesAndDirs ==
    WholeDirBuilt =>
        /\ archive =
              {FromParentOf(n, bsources[1]) :
                  n \in {m \in Files : StrictlyBeneath(m, bsources[1])}}
              \cup
              {FromParentOf(n, bsources[1]) \o <<"/">> :
                  n \in {m \in Dirs : StrictlyBeneath(m, bsources[1])}}
        /\ bsources[1] = DirD =>
              archive = {<<"d", "/", "a">>, <<"d", "/", "s", "/">>,
                         <<"d", "/", "s", "/", "b">>}

C6_Witness ==
    /\ WholeDirBuilt
    /\ bsources[1] = DirD
    /\ <<"d", "/", "s", "/", "b">> \in archive

\* C7: the builder enters Failed only from Opening or Finalizing
C7_FailedOnlyFromOpeningOrFinalizing ==
    [][(bstate' = "Failed" /\ bstate # "Failed")
        => bstate \in {"Opening", "Finalizing"}]_vars

\* C8: with a destination that cannot be written the build ends failed with
\* the error logged, logs no success and leaves no archive file
C8_UnwritableDestinationFails ==
    dest \in {"readonly", "blocked"} =>
        /\ bstate # "Completed"
        /\ "BackupCompleted" \notin events
        /\ zipFile = "none"
        /\ bstate \notin {"Idle", "Opening"} =>
              /\ bstate = "Failed"
              /\ events \cap {"FailedToCreateBackup", "DestCreateDenied"} # {}

C8_Witness ==
    /\ dest = "readonly"
    /\ bstate = "Failed"
    /\ "FailedToCreateBackup" \in events
    /\ zipFile = "none"

(***************************************************************************)
(* Two editors on one store, checked under SpecConc.                       *)
(***************************************************************************)
\* the number of entries of the store that hold path n
Stored(n) ==
    LET paths == IF impl = "db" THEN Paths(rows) ELSE FileLoad(lines)
    IN  Cardinality({i \in 1..Len(paths) : paths[i] = n})

\* C11: once both editors have finished, the store holds every acknowledged
\* add that no acknowledged remove took out, and nothing an acknowledged
\* remove took out
C11_NoLostUpdate ==
    (\A p \in Editors : cpc[p] = "done")
        => \A n \in Nodes : Stored(n) = kept[n]

(***************************************************************************)
(* Properties of a whole run, checked under Spec.                          *)
(***************************************************************************)
\* C12: no run ends by an exception nobody handles: a failure in a registry
\* operation, in choosing the destination (the default destination that
\* cannot be created included) or in opening and closing the archive is
\* reported and the run goes on or ends by its own decision
C12_NoUnhandledFault ==
    "Unhandled" \notin events

\* the operation recorded in l did not go through: an add of a path that
\* does not exist, a remove of an identifier the list `before` does not hold,
\* a remove of something that is no number, an action that is none of a, r, f
FailedOp(l, before) ==
    \/ l.op = "add" /\ l.report = "not_exist"
    \/ l.op = "remove" /\ l.report = "non_numeric"
    \/ l.op = "remove" /\ l.report # "non_numeric" /\ l.id \notin Ids(before)
    \/ l.op = "invalid"

\* C13: an operation that fails changes nothing in the store, the list read
\* after it is the list read before it, and the loop is at its prompt again
C13_FailedOpChangesNothing ==
    [][FailedOp(last', List) =>
        /\ <<rows, seq, lines>>' = <<rows, seq, lines>>
        /\ ListOf(impl, rows', lines') = List
        /\ pc' = "edit"]_vars

C13_Witness ==
    /\ last.op = "remove"
    /\ last.report # "non_numeric"
    /\ last.id \notin Ids(last.before)
    /\ Len(last.before) = 2
    /\ List = last.before
    /\ pc = "edit"

\* the log lines that report the outcome of a build
FailureLines == {"FailedToCreateBackup", "DestCreateDenied"}

SuccessLines == {"BackupCompleted", "ProcessCompleted"}

\* C14: a build that has ended has logged exactly one outcome, it is the
\* success line exactly when the archive was closed, a success line is only
\* there once the archive is closed, and a run whose build failed holds no
\* "completed successfully" line
C14_SuccessIffFinalized ==
    /\ "BackupCompleted" \in events => zipFile = "closed"
    /\ bstate \in {"Completed", "Failed"} =>
          /\ ("BackupCompleted" \in events) # (events \cap FailureLines # {})
          /\ ("BackupCompleted" \in events) <=> (zipFile = "closed")
    /\ bstate = "Failed" => events \cap SuccessLines = {}

\* the operation recorded in l changed the list `before`: an acknowledged
\* add, or a remove of an identifier `before` holds
Mutating(l) ==
    \/ l.op = "add" /\ l.report = "added"
    \/ l.op = "remove" /\ l.report # "non_numeric" /\ l.id \in Ids(l.before)

C18_EntryLifecycle ==
    [][/\ \A e \in Range(ListOf(impl, rows', lines')) :
             \/ e \in Range(List)
             \/ /\ last'.op = "add"
                /\ last'.report = "added"
                /\ e.path = Resolve(last'.text)
                /\ Exists(e.path)
       /\ \A e \in Range(List) :
             \/ e \in Range(ListOf(impl, rows', lines'))
             \/ /\ last'.op = "remove"
                /\ last'.report = "removed"
                /\ last'.id = e.id]_vars

\* the finish action found the list empty
FinishedEmpty == last.op = "finish" /\ last.before = <<>>

\* C16: a run whose list is empty at the finish action goes from reading
\* the sources to a normal exit with "No sources to back up": it never
\* prompts for a destination, never invokes the builder and creates no
\* archive; the builder is invoked only after the finish action, and once
\* invoked it is not invoked again before the next run starts
C16_EmptyListEndsRun ==
    /\ [](FinishedEmpty =>
            /\ pc \in {"sources", "exited"}
            /\ pc = "exited" => "NoSources" \in events
            /\ "DestinationSet" \notin events
            /\ bstate = "Idle"
            /\ zipFile = "none")
    /\ [][/\ (bstate = "Idle" /\ bstate' # "Idle") =>
              (last.op = "finish" /\ pc = "build")
          /\ (bstate # "Idle" /\ bstate' = "Idle") =>
              (pc \in {"exited", "crashed"} /\ pc' = "edit")]_vars

C16_Witness ==
    /\ FinishedEmpty
    /\ issued # {}
    /\ pc = "exited"
    /\ "NoSources" \in events
    /\ zipFile = "none"

\* the number of entries of the list l that hold path p
CountOf(l, p) == Cardinality({i \in 1..Len(l) : l[i].path = p})

\* the entry of the list l with identifier n
EntryOf(l, n) == CHOOSE e \in Range(l) : e.id = n

\* C22: an add of a path the list holds already is acknowledged like any
\* other and makes one more entry with that path, under an identifier no
\* other entry of the list has; a remove of one of several entries with
\* equal paths takes out one of them and leaves the others
C22_DuplicatesTolerated ==
    /\ \A i, j \in 1..Len(List) : i # j => List[i].id # List[j].id
    /\ (last.op = "add" /\ last.report \notin {"invalid_format", "not_exist"}
          /\ CountOf(last.before, Resolve(last.text)) >= 1)
        => /\ last.report = "added"
           /\ Len(List) = Len(last.before) + 1
           /\ CountOf(List, Resolve(last.text))
                 = CountOf(last.before, Resolve(last.text)) + 1
           /\ last.id \notin Ids(last.before)
    /\ (last.op = "remove" /\ last.report = "removed"
          /\ last.id \in Ids(last.before)
          /\ CountOf(last.before, EntryOf(last.before, last.id).path) >= 2)
        => /\ Len(List) = Len(last.before) - 1
           /\ CountOf(List, EntryOf(last.before, last.id).path)
                 = CountOf(last.before, EntryOf(last.before, last.id).path) - 1

C22_Witness ==
    /\ last.op = "remove"
    /\ last.report = "removed"
    /\ Len(last.before) = 2
    /\ last.before[1].path = last.before[2].path
    /\ last.before[1].id # last.before[2].id
    /\ Len(List) = 1
    /\ List[1].path = last.before[1].path

\* C23: from the finish action to the end of the run, through reading the
\* sources, choosing the destination and a build that completes or fails,
\* the table and the sources file stay as they are and the list read again
\* is the list the build was given; a path that disappears stays listed
C23_BuildKeepsRegistry ==
    /\ [](bsources # <<>> => FinalSources = bsources)
    /\ [][/\ pc \in {"sources", "destination", "build"} =>
                <<rows, seq, lines>>' = <<rows, seq, lines>>
          /\ gone' # gone => ListOf(impl, rows', lines') = List]_vars

C23_Witness ==
    /\ bstate = "Completed"
    /\ pc = "exited"
    /\ \E k \in 1..Len(skipped) :
          /\ skipped[k] \in gone
          /\ \E e \in Range(List) : e.path = skipped[k]

(***************************************************************************)
(* More properties of the builder, checked under SpecBuild.                *)
(***************************************************************************)
\* C15: no step of the builder turns a destination that does not exist into
\* one that exists, and the archive file appears only in a destination that
\* existed before the step
C15_BuilderNeverCreatesDestination ==
    [][/\ ~DestExists(dest) => ~DestExists(dest')
       /\ (zipFile = "none" /\ zipFile' # "none") => DestExists(dest)]_vars

\* the archive holds an entry written for the source sp: its base name, or a
\* name beneath its base name
HasEntry(sp) ==
    \E a \in archive : a = Name(sp) \/ StrictlyBeneath(a, Name(sp))

\* the skip list holds the source sp or a path beneath it
HasSkip(sp) ==
    \E k \in 1..Len(skipped) :
        skipped[k] = sp \/ StrictlyBeneath(skipped[k], sp)

\* C19: in a completed build every source, an existing directory without
\* files included, has an entry in the archive or a record in the skip list
C19_EverySourceAddedOrSkipped ==
    bstate = "Completed" =>
        \A i \in 1..Len(bsources) :
            HasEntry(Resolve(bsources[i])) \/ HasSkip(Resolve(bsources[i]))

(***************************************************************************)
(* The two registries compared, checked under SpecPair.                    *)
(***************************************************************************)
\* the operation went through
Succeeded(report) == report \in {"added", "removed"}

\* C20: after every sequence of adds and removes given to both registries,
\* the last operation went through in both or in neither, and both list the
\* same paths in the same order
C20_RegistriesInterchangeable ==
    /\ Succeeded(reports.db) <=> Succeeded(reports.file)
    /\ Paths(ListOf("db", rows, lines)) = Paths(ListOf("file", rows, lines))

(***************************************************************************)
(* Termination of the builder, checked under SpecLive.                     *)
(***************************************************************************)
\* the place of a state of the builder in Idle, Opening, PerSourceLoop,
\* Finalizing, {Completed, Failed}
Rank(st) ==
    CASE st = "Idle" -> 0
      [] st = "Opening" -> 1
      [] st = "PerSourceLoop" -> 2
      [] st = "Finalizing" -> 3
      [] OTHER -> 4

\* C21: a build that has started ends Completed or Failed, it never goes
\* back to an earlier state, and the loop takes the sources one by one in
\* their order
C21_BuildTerminates ==
    /\ (bstate # "Idle") ~> (bstate \in {"Completed", "Failed"})
    /\ [][/\ Rank(bstate') >= Rank(bstate)
          /\ idx' \in {idx, idx + 1}
          /\ idx' = idx + 1 =>
                cur' \in {NoSource,
                          [src |-> Resolve(bsources[idx']), dir |-> TRUE],
                          [src |-> Resolve(bsources[idx']), dir |-> FALSE]}
         ]_vars
====
